---- MODULE Spec2Model ----
(***************************************************************************)
(* Model of the two programs of the repository:                            *)
(*   cc_pseudo_crawl/finalise.py   the shard consolidation (main and       *)
(*                                 compute_external_ids_)                  *)
(*   ac_dc/visualization/visualization.py   the filtering dashboard        *)
(* Each program has its own specification over the same variables.         *)
(***************************************************************************)
EXTENDS Integers, Sequences, FiniteSets, TLC

(***************************************************************************)
(* Bounds of the model.                                                    *)
(***************************************************************************)
\* number of input shards (--datasets-to-concatenate)
NumShards == 2
\* records in all shards together
MaxRecords == 2
\* largest fetch_time
MaxTime == 2
\* external_urls entries in all records together
MaxRefs == 2
\* runs of the dashboard's script that a widget sets off
MaxRuns == 2

\* urls of crawled pages and of outbound links
Urls == {"u1", "u2"}
Times == 1..MaxTime

VARIABLES
    datasets,                 \* main: the loaded shards, in command-line order
    ds,                       \* main / compute_external_ids_: the dataset
    url_to_id_and_timestamp,  \* compute_external_ids_: the canonical index
    data,                     \* compute_external_ids_: the row of the running loop
    k,                        \* position of the running loop in ds (1-based)
    pushed,                   \* what push_to_hub published
    pc,                       \* position of main
    path_data,                \* the json file of the dashboard: docs and words
    session,                  \* the values of the dashboard's widgets
    runs,                     \* how often a widget has made the script run again
    docs,                     \* Visualization.docs after the run
    keys,                     \* Visualization.keys
    conds,                    \* filtering_of_docs: conds, per column
    all_conds,                \* filtering_of_docs: all_conds
    captions,                 \* print_discared_by_cond, one per key
    discarded_docs,           \* rows shown as "Discarded documents"
    retained_docs,            \* rows shown as "Retained documents"
    discarded_by_filter,      \* rows shown as discarded for the filter of a column
    discarded_words,          \* rows shown as "Discarded words"
    retained_words,           \* rows shown as "Retained words"
    parameters,               \* Visualization.parameters
    is_discarded              \* analyse_personal_doc: the verdict displayed

cvars == <<datasets, ds, url_to_id_and_timestamp, data, k, pushed, pc>>
vvars == <<path_data, session, runs, docs, keys, conds, all_conds, captions,
           discarded_docs, retained_docs, discarded_by_filter, discarded_words,
           retained_words, parameters, is_discarded>>
vars == <<cvars, vvars>>

(***************************************************************************)
(* Helpers.                                                                *)
(***************************************************************************)
RECURSIVE SeqSum(_)
SeqSum(s) == IF s = <<>> THEN 0 ELSE Head(s) + SeqSum(Tail(s))

RECURSIVE Flatten(_)
Flatten(ss) == IF ss = <<>> THEN <<>> ELSE Head(ss) \o Flatten(Tail(ss))

\* the empty mapping: a dict with no key, a row not yet bound
Empty == <<>>

\* a dict with one more (or one replaced) key
Put(m, key, v) == [x \in DOMAIN m \cup {key} |-> IF x = key THEN v ELSE m[x]]

\* body at a value that is computed once (a local variable of the code)
Let(value, body(_)) == CHOOSE result \in {body(x) : x \in {value}} : TRUE

SeqsUpTo(S, n) == UNION {[1..m -> S] : m \in 0..n}

(***************************************************************************)
(* finalise.py                                                             *)
(***************************************************************************)
\* python's comparison of two pairs: lexicographic, first component first
TupleLess(a, b) == a[1] < b[1] \/ (a[1] = b[1] /\ a[2] < b[2])

\* mutant of TupleMax: the pairs compared second component first
TupleMaxIdFirst(a, b) ==
    IF a[2] < b[2] \/ (a[2] = b[2] /\ a[1] < b[1]) THEN b ELSE a

\* python's max(a, b): the first argument unless the second is greater
TupleMax(a, b) == IF TupleLess(a, b) THEN b ELSE a

\* mutant of IndexUpdate: the entry of a url is always overwritten
IndexUpdateLastWins(index, row) ==
    Put(index, row.url, <<row.id, row.fetch_time>>)

\* one iteration of the first loop of compute_external_ids_
IndexUpdate(index, row) ==
    LET url == row.url
        id_ == row.id
        timestamp == row.fetch_time
    IN  IF url \in DOMAIN index
        THEN LET old_id == index[url][1]
                 old_time_stamp == index[url][2]
                 new == TupleMax(<<timestamp, id_>>, <<old_time_stamp, old_id>>)
             IN  Put(index, url, <<new[2], new[1]>>)
        ELSE Put(index, url, <<id_, timestamp>>)

\* mutant of ExternalIds: a placeholder stands for an url that is not in the
\* index, so that external_ids is as long as external_urls
RECURSIVE ExternalIdsPadded(_, _)
ExternalIdsPadded(external_urls, index) ==
    IF external_urls = <<>> THEN <<>>
    ELSE LET external_url == Head(external_urls)
             rest == ExternalIdsPadded(Tail(external_urls), index)
         IN  IF external_url \in DOMAIN index
             THEN <<index[external_url][1]>> \o rest
             ELSE <<0>> \o rest

\* the list comprehension of the second loop: one id per external url that is
\* in the index, in order, nothing for the others
RECURSIVE ExternalIds(_, _)
ExternalIds(external_urls, index) ==
    IF external_urls = <<>> THEN <<>>
    ELSE LET external_url == Head(external_urls)
             rest == ExternalIds(Tail(external_urls), index)
         IN  IF external_url \in DOMAIN index
             THEN <<index[external_url][1]>> \o rest
             ELSE rest

\* concatenate_datasets: the rows of the shards in the order given
concatenate_datasets(shards) == Flatten(shards)

\* mutant of assign_id: a row that has an id keeps it
assign_id_keeping(rows) ==
    [n \in 1..Len(rows) |->
       IF "id" \in DOMAIN rows[n] THEN rows[n] ELSE Put(rows[n], "id", n - 1)]

\* ds.map(assign_id, batched=True, with_indices=True): the column id is set
\* to the 0-based positions, whether or not the rows had one
assign_id(rows) == [n \in 1..Len(rows) |-> Put(rows[n], "id", n - 1)]

\* the first loop of compute_external_ids_ run to its end over rows
RECURSIVE BuildIndex(_, _)
BuildIndex(index, rows) ==
    IF rows = <<>> THEN index
    ELSE BuildIndex(IndexUpdate(index, Head(rows)), Tail(rows))

\* the dashboard does not run
VisualizationIdle ==
    /\ path_data = Empty
    /\ session = Empty
    /\ runs = 0
    /\ docs = <<>>
    /\ keys = <<>>
    /\ conds = Empty
    /\ all_conds = <<>>
    /\ captions = <<>>
    /\ discarded_docs = {}
    /\ retained_docs = {}
    /\ discarded_by_filter = Empty
    /\ discarded_words = {}
    /\ retained_words = {}
    /\ parameters = <<>>
    /\ is_discarded = "idle"

\* rows of the input: url, fetch_time, external_urls and, when the shards
\* already have the column, id
InputRow(url, fetch_time, external_urls) ==
    [url |-> url, fetch_time |-> fetch_time, external_urls |-> external_urls]

WithIds(shard) == [n \in 1..Len(shard) |-> Put(shard[n], "id", n - 1)]

\* the rows r of a corpus that lie in shard s, shardOf being monotone
Cut(rows, shardOf, s) ==
    LET idx == {r \in DOMAIN rows : shardOf[r] = s}
        lo == IF idx = {} THEN 1 ELSE CHOOSE r \in idx : \A q \in idx : r <= q
    IN  [j \in 1..Cardinality(idx) |-> rows[lo + j - 1]]

\* The input of a run: up to MaxRecords rows in NumShards shards, with or
\* without an id column. Urls are names, and the url of the first row is
\* called u1.
InitConsolidate ==
    /\ \E n \in 0..MaxRecords :
         \E ext \in {e \in [1..n -> SeqsUpTo(Urls, MaxRefs)] :
                       SeqSum([r \in 1..n |-> Len(e[r])]) <= MaxRefs} :
           \E ut \in {f \in [1..n -> Urls \X Times] : n > 0 => f[1][1] = "u1"} :
             \E shardOf \in {f \in [1..n -> 1..NumShards] :
                               \A a, b \in 1..n : a <= b => f[a] <= f[b]} :
               \E has_id \in BOOLEAN :
                 LET rows == [r \in 1..n |-> InputRow(ut[r][1], ut[r][2], ext[r])]
                 IN  datasets = [s \in 1..NumShards |->
                                   IF has_id THEN WithIds(Cut(rows, shardOf, s))
                                   ELSE Cut(rows, shardOf, s)]
    /\ ds = <<>>
    /\ url_to_id_and_timestamp = Empty
    /\ data = Empty
    /\ k = 0
    /\ pushed = <<>>
    /\ pc = "concatenate_datasets"
    /\ VisualizationIdle

\* main: ds = concatenate_datasets(datasets)
Concatenate ==
    /\ pc = "concatenate_datasets"
    /\ ds' = concatenate_datasets(datasets)
    /\ pc' = "assign_id"
    /\ UNCHANGED <<datasets, url_to_id_and_timestamp, data, k, pushed>>
    /\ UNCHANGED vvars

\* main: ds = ds.map(assign_id, batched=True, with_indices=True)
MapAssignId ==
    /\ pc = "assign_id"
    /\ ds' = assign_id(ds)
    /\ pc' = "build_index"
    /\ k' = 1
    /\ UNCHANGED <<datasets, url_to_id_and_timestamp, data, pushed>>
    /\ UNCHANGED vvars

\* compute_external_ids_: the first loop, one row per step; when it is
\* exhausted the second loop starts
BuildIndexEnabled == pc = "build_index"

ForBuildIndex ==
    /\ BuildIndexEnabled
    /\ IF k <= Len(ds)
       THEN /\ data' = ds[k]
            /\ url_to_id_and_timestamp' = IndexUpdate(url_to_id_and_timestamp, ds[k])
            /\ k' = k + 1
            /\ pc' = pc
       ELSE /\ pc' = "resolve"
            /\ k' = 1
            /\ UNCHANGED <<data, url_to_id_and_timestamp>>
    /\ UNCHANGED <<datasets, ds, pushed>>
    /\ UNCHANGED vvars

\* mutant of ResolveEnabled: rows are resolved while the index is being built
ResolveEnabledEarly == pc \in {"build_index", "resolve"}

\* compute_external_ids_: the second loop, one row per step. The row is the
\* dict the dataset's iterator built for it: the assignment changes that
\* dict, and ds keeps its rows.
ResolveEnabled == pc = "resolve"

ForResolve ==
    /\ ResolveEnabled
    /\ IF k <= Len(ds)
       THEN /\ data' = Put(ds[k], "external_ids",
                           ExternalIds(ds[k].external_urls, url_to_id_and_timestamp))
            /\ k' = k + 1
            /\ pc' = pc
       ELSE /\ pc' = "push_to_hub"
            /\ UNCHANGED <<data, k>>
    /\ UNCHANGED <<datasets, ds, url_to_id_and_timestamp, pushed>>
    /\ UNCHANGED vvars

\* main: ds.push_to_hub(args.dataset, private=True)
PushToHub ==
    /\ pc = "push_to_hub"
    /\ pushed' = ds
    /\ pc' = "done"
    /\ UNCHANGED <<datasets, ds, url_to_id_and_timestamp, data, k>>
    /\ UNCHANGED vvars

NextConsolidate ==
    \/ Concatenate
    \/ MapAssignId
    \/ ForBuildIndex
    \/ ForResolve
    \/ PushToHub

SpecConsolidate == InitConsolidate /\ [][NextConsolidate]_vars

(***************************************************************************)
(* visualization.py                                                        *)
(***************************************************************************)
\* A number is a fraction <<n, d>>, d > 0. NaN is what the DataFrame holds
\* where a document lacks a metric; every comparison with it is false.
NaN == <<0, 0>>
Whole(n) == <<n, 1>>
IsNaN(x) == x[2] = 0
Leq(a, b) == ~IsNaN(a) /\ ~IsNaN(b) /\ a[1] * b[2] <= b[1] * a[2]
Geq(a, b) == Leq(b, a)
Less(a, b) == ~IsNaN(a) /\ ~IsNaN(b) /\ a[1] * b[2] < b[1] * a[2]
Greater(a, b) == Less(b, a)

\* round(x, 3)
Round3(x) == IF IsNaN(x) THEN x ELSE <<(2000 * x[1] + x[2]) \div (2 * x[2]), 1000>>

\* a dict without a key
Without(m, key) == [x \in DOMAIN m \ {key} |-> m[x]]

\* the positions of a boolean vector that hold TRUE
Where(cond) == {i \in DOMAIN cond : cond[i]}

\* the values the files of the model hold: a low and a high one per metric
CountValues == {Whole(1), Whole(2)}
RatioValues == {<<0, 1>>, <<1, 2>>}
RepetitionsLengths == {"5", "10"}
Repetitions(five, ten) == [l \in RepetitionsLengths |-> IF l = "5" THEN five ELSE ten]
RepetitionsValues == {Repetitions(<<0, 1>>, <<1, 2>>), Repetitions(<<1, 2>>, <<0, 1>>)}
ValueOf(column, high) ==
    CASE column \in {"number_words", "perplexity_score"} ->
           IF high THEN Whole(2) ELSE Whole(1)
      [] column = "repetitions_ratio" ->
           IF high THEN Repetitions(<<1, 2>>, <<0, 1>>) ELSE Repetitions(<<0, 1>>, <<1, 2>>)
      [] OTHER -> IF high THEN <<1, 2>> ELSE <<0, 1>>

\* the metrics the files of the model have
ColumnSets ==
    {{"number_words", "stopwords_ratio"},
     {"repetitions_ratio", "special_characters_ratio"},
     {"stopwords_ratio", "flagged_words_ratio"},
     {"flagged_words_ratio", "lang_id_score"},
     {"lang_id_score", "perplexity_score"}}

\* the texts of the two documents of a file, as words
DocTexts == <<(<<"the", "cat">>), (<<"cat">>)>>

\* the words of the two documents, when the file has them
DocWords ==
    <<(<<[len_word |-> 1, incorrect_substring |-> FALSE],
         [len_word |-> 2, incorrect_substring |-> TRUE]>>),
      (<<[len_word |-> 2, incorrect_substring |-> FALSE]>>)>>

\* __init__: LoadParameters.load_stopwords, load_flagged_words and the
\* language of the dataset
stopwords == {"the"}
flagged_words == {"cat"}
lang_dataset_id == "en"

\* the lists a user uploads
UploadedLexicons == {{"cat"}, {"the", "cat"}}
NoFile == [uploaded |-> FALSE, words |-> {}]
File(lexicon) == [uploaded |-> TRUE, words |-> lexicon]

\* the positions of the ratio sliders (0.0 to 1.0, step 0.01)
RatioCutoffs == {<<0, 100>>, <<50, 100>>, <<100, 100>>}

\* pd.DataFrame(docs): a column for every key of some document, NaN where a
\* document lacks it
DataFrame(rows) ==
    LET columns == UNION {DOMAIN rows[i] : i \in DOMAIN rows}
    IN  [i \in DOMAIN rows |->
           [c \in columns |-> IF c \in DOMAIN rows[i] THEN rows[i][c] ELSE NaN]]

\* open_data: self.words and self.docs_checkpoint (self.docs is the same
\* DataFrame)
open_data(file) ==
    LET has_words == "words" \in DOMAIN file[1]
    IN  [words |-> IF has_words
                   THEN [present |-> TRUE,
                         rows |-> Flatten([i \in DOMAIN file |-> file[i].words])]
                   ELSE [present |-> FALSE, rows |-> <<>>],
         docs |-> DataFrame([i \in DOMAIN file |->
                               IF has_words THEN Without(file[i], "words")
                               ELSE file[i]])]

\* int(np.max(column)) + 1: the maximum skips NaN
MaxPlusOne(table, column) ==
    LET vals == {table[i][column] : i \in DOMAIN table} \ {NaN}
        top == CHOOSE v \in vals : \A w \in vals : Leq(w, v)
    IN  (top[1] \div top[2]) + 1

Min(a, b) == IF a <= b THEN a ELSE b

\* mutant of get_cond: a value equal to the cutoff fails a max cutoff
get_cond_strict(table, key, cutoff, max_cutoff) ==
    [i \in DOMAIN table |->
       IF max_cutoff THEN Less(table[i][key], cutoff)
       ELSE Geq(table[i][key], cutoff)]

\* mutant of get_cond: the directions are exchanged
get_cond_flipped(table, key, cutoff, max_cutoff) ==
    [i \in DOMAIN table |->
       IF max_cutoff THEN Geq(table[i][key], cutoff)
       ELSE Leq(table[i][key], cutoff)]

\* set_sliders.get_cond
get_cond(table, key, cutoff, max_cutoff) ==
    [i \in DOMAIN table |->
       IF max_cutoff THEN Leq(table[i][key], cutoff)
       ELSE Geq(table[i][key], cutoff)]

\* mutant of print_discared_by_cond: how many of how many are retained
print_retained_by_cond(cond) == <<Cardinality(Where(cond)), Len(cond)>>

\* set_sliders.print_discared_by_cond: how many of how many are discarded
print_discared_by_cond(cond) ==
    <<Len(cond) - Cardinality(Where(cond)), Len(cond)>>

\* Filtering.compute_stopwords_ratio and compute_flagged_words_ratio (no
\* words augmentation): the share of the words of the text that are in the
\* list, 0 for a text without words
compute_words_ratio(text, lexicon) ==
    IF text = <<>> THEN <<0, 1>>
    ELSE <<Cardinality({j \in DOMAIN text : text[j] \in lexicon}), Len(text)>>

\* a column of the DataFrame set row by row
SetColumn(table, column, f(_)) ==
    [i \in DOMAIN table |-> [table[i] EXCEPT ![column] = f(i)]]

\* a key of self.keys and its condition
Rule(key, cond) == [key |-> key, cond |-> cond]

\* the widgets of set_sliders at their defaults
SliderDefaults(table) ==
    LET columns == DOMAIN table[1]
    IN  [cutoff_min_number_words |-> Whole(0),
         cutoff_max_number_words |->
             IF "number_words" \in columns
             THEN Whole(MaxPlusOne(table, "number_words")) ELSE NaN,
         repetitions_length |-> "10",
         cutoff_repetitions_ratio |-> <<100, 100>>,
         cutoff_special_characters_ratio |-> <<100, 100>>,
         stopwords_file |-> NoFile,
         cutoff_stopwords_ratio |-> <<0, 100>>,
         flagged_words_file |-> NoFile,
         cutoff_flagged_words_ratio |-> <<100, 100>>,
         cutoff_lang_id_score |-> <<0, 100>>,
         cutoff_perplexity_score |->
             IF "perplexity_score" \in columns
             THEN Whole(MaxPlusOne(table, "perplexity_score")) ELSE NaN]

\* set_sliders, lines 182-225: self.docs["repetitions_ratio"] becomes the
\* ratio of the selected length
select_repetitions(table, w) ==
    IF "repetitions_ratio" \in DOMAIN table[1]
    THEN SetColumn(table, "repetitions_ratio",
                   LAMBDA i : table[i]["repetitions_ratio"][w.repetitions_length])
    ELSE table

\* mutant of recompute_ratio: an uploaded list is ignored
recompute_ratio_ignored(table, column, file) == table

\* set_sliders, lines 244-270 and 272-298: an uploaded list makes the column
\* the ratio of the words of the text that are in the list
recompute_ratio(table, column, file) ==
    IF column \in DOMAIN table[1] /\ file.uploaded
    THEN SetColumn(table, column,
                   LAMBDA i : compute_words_ratio(table[i]["text"], file.words))
    ELSE table

\* set_sliders: the key and the condition of a cutoff, when the DataFrame
\* has the column
rule(table, key) ==
    IF key[1] \in DOMAIN table[1]
    THEN <<Rule(key, get_cond(table, key[1], key[2], key[3]))>>
    ELSE <<>>

\* set_sliders: the DataFrame with the columns it rewrites, and the keys
\* with their conditions, in the order of the code
set_sliders(table, w) ==
    Let(select_repetitions(table, w), LAMBDA docs1 :
    Let(recompute_ratio(docs1, "stopwords_ratio", w.stopwords_file), LAMBDA docs2 :
    Let(recompute_ratio(docs2, "flagged_words_ratio", w.flagged_words_file), LAMBDA docs3 :
      [docs |-> docs3,
       rules |->
            rule(table, <<"number_words", w.cutoff_min_number_words, FALSE>>)
         \o rule(table, <<"number_words", w.cutoff_max_number_words, TRUE>>)
         \o rule(docs1, <<"repetitions_ratio", w.cutoff_repetitions_ratio, TRUE,
                          w.repetitions_length>>)
         \o rule(docs1, <<"special_characters_ratio",
                          w.cutoff_special_characters_ratio, TRUE>>)
         \o rule(docs2, <<"stopwords_ratio", w.cutoff_stopwords_ratio, FALSE>>)
         \o rule(docs3, <<"flagged_words_ratio", w.cutoff_flagged_words_ratio, TRUE>>)
         \o rule(docs3, <<"lang_id_score", w.cutoff_lang_id_score, FALSE>>)
         \o rule(docs3, <<"perplexity_score", w.cutoff_perplexity_score, TRUE>>)])))

\* mutant of AllOf: np.any(conds, axis=0)
AnyOf(cs, n) == [i \in 1..n |-> \E j \in DOMAIN cs : cs[j][i]]

\* np.all(conds, axis=0)
AllOf(cs, n) == [i \in 1..n |-> \A j \in DOMAIN cs : cs[j][i]]

\* conds[key[0]]: the conditions of the keys of a column
conds_of(rules, column) ==
    Let(SelectSeq(rules, LAMBDA r : r.key[1] = column), LAMBDA of :
      [j \in DOMAIN of |-> of[j].cond])

\* filtering_of_docs, from all_conds on
display_dataset(s, n, w) ==
    Let(AllOf([j \in DOMAIN s.rules |-> s.rules[j].cond], n), LAMBDA every :
    Let([c \in {s.rules[j].key[1] : j \in DOMAIN s.rules} |-> conds_of(s.rules, c)],
        LAMBDA by_column :
      [docs |-> s.docs,
       keys |-> [j \in DOMAIN s.rules |-> s.rules[j].key],
       conds |-> by_column,
       captions |-> [j \in DOMAIN s.rules |-> print_discared_by_cond(s.rules[j].cond)],
       all_conds |-> every,
       discarded_docs |-> {i \in 1..n : ~every[i]},
       discarded_by_filter |->
           IF w.display_discarded_documents_by_filter
           THEN [c \in DOMAIN by_column |->
                   {i \in 1..n : \E j \in DOMAIN by_column[c] : ~by_column[c][j][i]}]
           ELSE Empty,
       retained_docs |-> Where(every)]))

\* filtering_of_docs
filtering_of_docs(table, w) ==
    Let(set_sliders(table, w), LAMBDA s : display_dataset(s, Len(s.docs), w))

\* the upper ends of the sliders of the word counts and of the word lengths
MaxSliderNumberWords == 500
MaxSliderLenWord == 200

\* min(int(np.max(self.words["len_word"])) + 1, 200)
max_len_word(words) ==
    LET lens == {words.rows[j].len_word : j \in DOMAIN words.rows}
    IN  Min((CHOOSE l \in lens : \A m \in lens : m <= l) + 1, MaxSliderLenWord)

\* mutant of filtering_of_words: a word as long as the cutoff is discarded
filtering_of_words_strict(words, w) ==
    IF ~words.present
    THEN [parameters |-> <<>>, discarded_words |-> {}, retained_words |-> {}]
    ELSE LET cond_words ==
                 [j \in DOMAIN words.rows |->
                    /\ words.rows[j].len_word < w.cutoff_word
                    /\ w.incorrect_substrings => ~words.rows[j].incorrect_substring]
         IN  [parameters |-> <<(<<"len_word", Whole(w.cutoff_word), TRUE>>),
                               (<<"incorrect_substrings", w.incorrect_substrings>>)>>,
              discarded_words |-> {j \in DOMAIN cond_words : ~cond_words[j]},
              retained_words |-> Where(cond_words)]

\* filtering_of_words: what it appends to self.parameters and the rows it
\* shows as discarded and as retained; nothing when the file has no words
filtering_of_words(words, w) ==
    IF ~words.present
    THEN [parameters |-> <<>>, discarded_words |-> {}, retained_words |-> {}]
    ELSE LET cond_words ==
                 [j \in DOMAIN words.rows |->
                    /\ words.rows[j].len_word <= w.cutoff_word
                    /\ w.incorrect_substrings => ~words.rows[j].incorrect_substring]
         IN  [parameters |-> <<(<<"len_word", Whole(w.cutoff_word), TRUE>>),
                               (<<"incorrect_substrings", w.incorrect_substrings>>)>>,
              discarded_words |-> {j \in DOMAIN cond_words : ~cond_words[j]},
              retained_words |-> Where(cond_words)]

\* analyse_personal_doc.is_doc_discarded
is_doc_discarded(key, score) ==
    IF key[3] THEN Greater(score, key[2]) ELSE Less(score, key[2])

\* no document in the text area
NoDoc ==
    [text |-> <<>>,
     repetitions_ratio |-> [l \in RepetitionsLengths |-> <<0, 1>>],
     special_characters_ratio |-> <<0, 1>>,
     lang |-> <<lang_dataset_id, <<0, 1>>>>,
     perplexity_score |-> Whole(1)]

\* A document pasted in the text area: its words and what the functions of
\* Filtering that rest on nothing but the text and the models return for
\* it. Only what the keys make the probe compute varies.
PersonalDocs(ks) ==
    LET names == {ks[j][1] : j \in DOMAIN ks}
        If(name, S, d) == IF name \in names THEN S ELSE {d}
    IN  {[text |-> t, repetitions_ratio |-> r, special_characters_ratio |-> s,
          lang |-> l, perplexity_score |-> p] :
            t \in IF names \cap {"number_words", "stopwords_ratio", "flagged_words_ratio"} # {}
                  THEN {DocTexts[i] : i \in DOMAIN DocTexts} ELSE {DocTexts[1]},
            r \in If("repetitions_ratio", RepetitionsValues, NoDoc.repetitions_ratio),
            s \in If("special_characters_ratio", RatioValues, NoDoc.special_characters_ratio),
            l \in If("lang_id_score", {"en", "fr"} \X RatioValues, NoDoc.lang),
            p \in If("perplexity_score", CountValues, NoDoc.perplexity_score)}

\* the probe after some keys: the flag is_discarded, the local
\* flagged_words_ratio once it is bound, and whether a key raised
ProbeStart ==
    [is_discarded |-> FALSE, bound |-> FALSE, flagged_words_ratio |-> NaN,
     raised |-> FALSE]

Discard(st, discard) == [st EXCEPT !.is_discarded = @ \/ discard]

\* analyse_personal_doc, key lang_id_score: the condition of the if
LangIdDiscards(key, doc, st) ==
    is_doc_discarded(key, st.flagged_words_ratio) \/ lang_dataset_id # doc.lang[1]

\* analyse_personal_doc: the body of the loop over self.keys
ProbeKey(key, doc, st) ==
    CASE key[1] = "number_words" ->
           Discard(st, is_doc_discarded(key, Whole(Len(doc.text))))
      [] key[1] = "repetitions_ratio" ->
           Discard(st, is_doc_discarded(key, Round3(doc.repetitions_ratio[key[4]])))
      [] key[1] = "special_characters_ratio" ->
           Discard(st, is_doc_discarded(key, Round3(doc.special_characters_ratio)))
      [] key[1] = "stopwords_ratio" ->
           Discard(st, is_doc_discarded(key,
                         Round3(compute_words_ratio(doc.text, stopwords))))
      [] key[1] = "flagged_words_ratio" ->
           LET ratio == Round3(compute_words_ratio(doc.text, flagged_words))
           IN  [Discard(st, is_doc_discarded(key, ratio))
                  EXCEPT !.bound = TRUE, !.flagged_words_ratio = ratio]
      [] key[1] = "lang_id_score" ->
           IF ~st.bound THEN [st EXCEPT !.raised = TRUE]
           ELSE Discard(st, LangIdDiscards(key, doc, st))
      [] key[1] = "perplexity_score" ->
           Discard(st, is_doc_discarded(key, Round3(doc.perplexity_score)))

RECURSIVE ProbeFrom(_, _, _, _)
ProbeFrom(ks, j, doc, st) ==
    IF j > Len(ks) \/ st.raised THEN st
    ELSE Let(ProbeKey(ks[j], doc, st), LAMBDA next : ProbeFrom(ks, j + 1, doc, next))

\* analyse_personal_doc: what it says of the document
analyse_personal_doc(ks, doc) ==
    IF doc.text = <<>> THEN "nothing"
    ELSE Let(ProbeFrom(ks, 1, doc, ProbeStart), LAMBDA st :
           IF st.raised THEN "raised"
           ELSE IF st.is_discarded THEN "discarded" ELSE "not discarded")

\* visualization: one run of the script with the widgets at w
visualization(file, w) ==
    Let(open_data(file), LAMBDA o :
    Let(filtering_of_docs(o.docs, w), LAMBDA d :
    Let(filtering_of_words(o.words, w), LAMBDA f :
      [docs |-> d.docs, keys |-> d.keys, conds |-> d.conds,
       all_conds |-> d.all_conds, captions |-> d.captions,
       discarded_docs |-> d.discarded_docs, retained_docs |-> d.retained_docs,
       discarded_by_filter |-> d.discarded_by_filter,
       discarded_words |-> f.discarded_words, retained_words |-> f.retained_words,
       parameters |-> d.keys \o f.parameters,
       is_discarded |-> analyse_personal_doc(d.keys, w.personal_doc)])))

Shows(r) ==
    /\ docs = r.docs
    /\ keys = r.keys
    /\ conds = r.conds
    /\ all_conds = r.all_conds
    /\ captions = r.captions
    /\ discarded_docs = r.discarded_docs
    /\ retained_docs = r.retained_docs
    /\ discarded_by_filter = r.discarded_by_filter
    /\ discarded_words = r.discarded_words
    /\ retained_words = r.retained_words
    /\ parameters = r.parameters
    /\ is_discarded = r.is_discarded

\* the widgets before the user has touched any
WidgetDefaults(file) ==
    LET o == open_data(file)
        sliders == SliderDefaults(o.docs)
        others == [display_discarded_documents_by_filter |-> FALSE,
                   cutoff_word |-> IF o.words.present THEN max_len_word(o.words) ELSE 0,
                   incorrect_substrings |-> FALSE,
                   personal_doc |-> NoDoc]
    IN  [x \in DOMAIN sliders \cup DOMAIN others |->
           IF x \in DOMAIN sliders THEN sliders[x] ELSE others[x]]

\* a document of the file: its text, the metrics it has and, when the file
\* has them, its words
Doc(i, metrics, has_words) ==
    LET base == Put(metrics, "text", DocTexts[i])
    IN  IF has_words THEN Put(base, "words", DocWords[i]) ELSE base

\* The files of the model: two documents with the metrics of one of
\* ColumnSets. The first document has them all, the second may lack any but
\* repetitions_ratio (the loop of lines 206-209 subscripts every row).
InitVisualize ==
    /\ \E columns \in ColumnSets, has_words \in BOOLEAN :
         \E high1 \in [columns -> BOOLEAN] :
           \E lacks \in SUBSET (columns \ {"repetitions_ratio"}) :
             \E high2 \in [columns \ lacks -> BOOLEAN] :
               path_data =
                 <<Doc(1, [c \in columns |-> ValueOf(c, high1[c])], has_words),
                   Doc(2, [c \in columns \ lacks |-> ValueOf(c, high2[c])], has_words)>>
    /\ session = WidgetDefaults(path_data)
    /\ runs = 0
    /\ \E r \in {visualization(path_data, session)} : Shows(r)
    /\ datasets = <<>> /\ ds = <<>> /\ url_to_id_and_timestamp = Empty
    /\ data = Empty /\ k = 0 /\ pushed = <<>> /\ pc = "visualization"

\* a widget has a new value: streamlit runs the script again
Rerun(w) ==
    /\ runs < MaxRuns
    /\ w # session
    /\ session' = w
    /\ runs' = runs + 1
    /\ \E r \in {visualization(path_data, w)} :
           /\ docs' = r.docs
           /\ keys' = r.keys
           /\ conds' = r.conds
           /\ all_conds' = r.all_conds
           /\ captions' = r.captions
           /\ discarded_docs' = r.discarded_docs
           /\ retained_docs' = r.retained_docs
           /\ discarded_by_filter' = r.discarded_by_filter
           /\ discarded_words' = r.discarded_words
           /\ retained_words' = r.retained_words
           /\ parameters' = r.parameters
           /\ is_discarded' = r.is_discarded
    /\ UNCHANGED path_data
    /\ UNCHANGED cvars

HasColumn(column) == column \in DOMAIN docs[1]

\* the sliders of "Number of words"
SlideMinNumberWords ==
    /\ HasColumn("number_words")
    /\ \E v \in 0..Min(MaxPlusOne(docs, "number_words"), MaxSliderNumberWords) :
         Rerun([session EXCEPT !.cutoff_min_number_words = Whole(v)])

SlideMaxNumberWords ==
    /\ HasColumn("number_words")
    /\ \E v \in 0..MaxPlusOne(docs, "number_words") :
         Rerun([session EXCEPT !.cutoff_max_number_words = Whole(v)])

\* the select box and the slider of "Repetitions ratio"
SelectRepetitionsLength ==
    /\ HasColumn("repetitions_ratio")
    /\ \E l \in DOMAIN path_data[1]["repetitions_ratio"] :
         Rerun([session EXCEPT !.repetitions_length = l])

SlideRepetitionsRatio ==
    /\ HasColumn("repetitions_ratio")
    /\ \E v \in RatioCutoffs : Rerun([session EXCEPT !.cutoff_repetitions_ratio = v])

SlideSpecialCharactersRatio ==
    /\ HasColumn("special_characters_ratio")
    /\ \E v \in RatioCutoffs :
         Rerun([session EXCEPT !.cutoff_special_characters_ratio = v])

\* the file uploader and the slider of "Stop words ratio"
UploadStopwords ==
    /\ HasColumn("stopwords_ratio")
    /\ \E f \in {NoFile} \cup {File(l) : l \in UploadedLexicons} :
         Rerun([session EXCEPT !.stopwords_file = f])

SlideStopwordsRatio ==
    /\ HasColumn("stopwords_ratio")
    /\ \E v \in RatioCutoffs : Rerun([session EXCEPT !.cutoff_stopwords_ratio = v])

\* the file uploader and the slider of "Flagged words ratio"
UploadFlaggedWords ==
    /\ HasColumn("flagged_words_ratio")
    /\ \E f \in {NoFile} \cup {File(l) : l \in UploadedLexicons} :
         Rerun([session EXCEPT !.flagged_words_file = f])

SlideFlaggedWordsRatio ==
    /\ HasColumn("flagged_words_ratio")
    /\ \E v \in RatioCutoffs : Rerun([session EXCEPT !.cutoff_flagged_words_ratio = v])

SlideLangIdScore ==
    /\ HasColumn("lang_id_score")
    /\ \E v \in RatioCutoffs : Rerun([session EXCEPT !.cutoff_lang_id_score = v])

SlidePerplexityScore ==
    /\ HasColumn("perplexity_score")
    /\ \E v \in 0..MaxPlusOne(docs, "perplexity_score") :
         Rerun([session EXCEPT !.cutoff_perplexity_score = Whole(v)])

CheckDisplayByFilter ==
    /\ pc = "visualization"
    /\ \E checked \in BOOLEAN :
         Rerun([session EXCEPT !.display_discarded_documents_by_filter = checked])

\* the widgets of filtering_of_words
SlideLenWord ==
    /\ "words" \in DOMAIN path_data[1]
    /\ \E v \in 0..max_len_word(open_data(path_data).words) :
         Rerun([session EXCEPT !.cutoff_word = v])

CheckIncorrectSubstrings ==
    /\ "words" \in DOMAIN path_data[1]
    /\ \E checked \in BOOLEAN : Rerun([session EXCEPT !.incorrect_substrings = checked])

\* the text area of analyse_personal_doc
PastePersonalDoc ==
    /\ pc = "visualization"
    /\ \E doc \in PersonalDocs(keys) \cup {NoDoc} :
      Rerun([session EXCEPT !.personal_doc = doc])

NextVisualize ==
    \/ SlideMinNumberWords
    \/ SlideMaxNumberWords
    \/ SelectRepetitionsLength
    \/ SlideRepetitionsRatio
    \/ SlideSpecialCharactersRatio
    \/ UploadStopwords
    \/ SlideStopwordsRatio
    \/ UploadFlaggedWords
    \/ SlideFlaggedWordsRatio
    \/ SlideLangIdScore
    \/ SlidePerplexityScore
    \/ CheckDisplayByFilter
    \/ SlideLenWord
    \/ CheckIncorrectSubstrings
    \/ PastePersonalDoc

SpecVisualize == InitVisualize /\ [][NextVisualize]_vars

(***************************************************************************)
(* Claims about the consolidation.                                         *)
(***************************************************************************)
\* the rows the first loop has processed so far
Indexed ==
    IF pc = "build_index" THEN SubSeq(ds, 1, k - 1)
    ELSE IF pc \in {"resolve", "push_to_hub", "done"} THEN ds
    ELSE <<>>

\* (fetch_time, id) of row a is at least that of row b, fetch_time first
LatestOf(a, b) ==
    a.fetch_time > b.fetch_time \/ (a.fetch_time = b.fetch_time /\ a.id >= b.id)

\* C2: whatever prefix of the records the index-build pass has processed,
\* the index has exactly the urls of those records, and the entry of a url
\* is (id, fetch_time) of the record of that url whose (fetch_time, id) is
\* lexicographically greatest; after the pass this is so for all records.
C2_CanonicalIndex ==
    LET rows == Indexed
        index == url_to_id_and_timestamp
    IN  /\ DOMAIN index = {rows[n].url : n \in DOMAIN rows}
        /\ \A u \in DOMAIN index :
             \E n \in DOMAIN rows :
               /\ rows[n].url = u
               /\ index[u] = <<rows[n].id, rows[n].fetch_time>>
               /\ \A m \in DOMAIN rows : rows[m].url = u => LatestOf(rows[n], rows[m])

\* C2 witness: A{u1, fetch_time 2, id 0} and B{u1, fetch_time 1, id 1} have
\* been indexed as {u1:(0,2)}: the later fetch wins, not the later row.
C2_Witness ==
    /\ pc = "resolve"
    /\ Len(ds) = 2
    /\ ds[1].url = "u1" /\ ds[1].fetch_time = 2
    /\ ds[2].url = "u1" /\ ds[2].fetch_time = 1
    /\ url_to_id_and_timestamp = Put(Empty, "u1", <<0, 2>>)

\* the permutations of 1..n
Perms(n) == {p \in [1..n -> 1..n] : \A a, b \in 1..n : a # b => p[a] # p[b]}

Permuted(shards, p) == [s \in DOMAIN shards |-> shards[p[s]]]

\* for each position of the concatenation of the permuted shards, the shard
\* and the position in it the row comes from
Origins(shards, p) ==
    Flatten([s \in DOMAIN shards |->
               [j \in 1..Len(shards[p[s]]) |-> <<p[s], j>>]])

UrlToId(index) == [u \in DOMAIN index |-> index[u][1]]

\* main up to the end of the index-build pass, as a function of the shards
IndexOfRun(shards) == BuildIndex(Empty, assign_id(concatenate_datasets(shards)))

\* C3 as stated: whatever the order of the shards, the map url -> id of the
\* canonical index is the one of this run.
C3_SameUrlToId ==
    pc = "done" =>
      \A p \in Perms(NumShards) :
        UrlToId(IndexOfRun(Permuted(datasets, p))) = UrlToId(url_to_id_and_timestamp)

\* C3 amended: whatever the order of the shards, the canonical index has the
\* same urls and the same fetch_time for each, and its entry is the same
\* record (same shard, same place in it) whenever one record alone has the
\* greatest fetch_time of that url.
C3_SameCanonicalRecord ==
    pc = "done" =>
      LET index == url_to_id_and_timestamp
          here == Origins(datasets, [s \in 1..NumShards |-> s])
      IN  \A p \in Perms(NumShards) :
            LET other == IndexOfRun(Permuted(datasets, p))
                there == Origins(datasets, p)
            IN  /\ DOMAIN other = DOMAIN index
                /\ \A u \in DOMAIN index :
                     /\ other[u][2] = index[u][2]
                     /\ Cardinality({n \in DOMAIN ds : ds[n].url = u
                                       /\ ds[n].fetch_time = index[u][2]}) = 1
                          => there[other[u][1] + 1] = here[index[u][1] + 1]

\* C3 witness: a finished run over two non-empty shards that hold the same
\* url with different fetch_times, the other order of which gives another
\* map url -> id.
C3_Witness ==
    /\ pc = "done"
    /\ \E a \in DOMAIN datasets[1], b \in DOMAIN datasets[2] :
         /\ datasets[1][a].url = datasets[2][b].url
         /\ datasets[1][a].fetch_time # datasets[2][b].fetch_time
    /\ \E p \in Perms(NumShards) :
         UrlToId(IndexOfRun(Permuted(datasets, p))) # UrlToId(url_to_id_and_timestamp)

\* the row has been through the resolution pass
Resolved(row) == "external_ids" \in DOMAIN row

\* the id is that of the canonical record of the url
CanonicalIdOf(id, url) ==
    /\ url \in DOMAIN url_to_id_and_timestamp
    /\ url_to_id_and_timestamp[url][1] = id
    /\ \E n \in DOMAIN ds : ds[n].id = id /\ ds[n].url = url

ResolvableUpTo(urls, i) ==
    Cardinality({j \in 1..i : urls[j] \in DOMAIN url_to_id_and_timestamp})

C5_ReturnedExternalIds ==
    pc \in {"push_to_hub", "done"} =>
      \A n \in DOMAIN ds :
        /\ Resolved(ds[n])
        /\ LET urls == SelectSeq(ds[n].external_urls,
                                 LAMBDA u : u \in DOMAIN url_to_id_and_timestamp)
           IN  ds[n].external_ids = [j \in DOMAIN urls |-> url_to_id_and_timestamp[urls[j]][1]]

\* C6: a row is resolved only when the index-build pass has been over every
\* record of every shard, and then every external url of the row that is the
\* url of some record, wherever that record lies, has the id of the latest
\* such record among the row's external_ids.
C6_IndexBeforeResolution ==
    Resolved(data) =>
      /\ pc \in {"resolve", "push_to_hub", "done"}
      /\ \A n \in DOMAIN ds :
           /\ ds[n].url \in DOMAIN url_to_id_and_timestamp
           /\ url_to_id_and_timestamp[ds[n].url][2] >= ds[n].fetch_time
      /\ \A i \in DOMAIN data.external_urls :
           \A n \in DOMAIN ds :
             ds[n].url = data.external_urls[i] =>
               \E j \in DOMAIN data.external_ids :
                 LET to == ds[data.external_ids[j] + 1]
                 IN  to.url = ds[n].url /\ LatestOf(to, ds[n])

\* C6 witness: a resolved row of the first shard with an external id that is
\* a record of the second shard.
C6_Witness ==
    /\ Resolved(data)
    /\ data.id < Len(datasets[1])
    /\ \E j \in DOMAIN data.external_ids : data.external_ids[j] >= Len(datasets[1])

\* the shards came with an id column
InputCarriesIds ==
    \E s \in DOMAIN datasets : \E n \in DOMAIN datasets[s] : "id" \in DOMAIN datasets[s][n]

\* C7: when the input carries ids, the consolidation stops before it gives
\* any row another id or publishes anything.
C7_RejectsInputIds ==
    InputCarriesIds =>
      /\ pushed = <<>>
      /\ \A n \in DOMAIN ds : ds[n].id = concatenate_datasets(datasets)[n].id

(***************************************************************************)
(* Claims about the visualization.                                         *)
(***************************************************************************)
\* the condition of the j-th key: conds holds, per column, the conditions of
\* the keys of the column in the order of the keys
RuleCond(j) ==
    conds[keys[j][1]][Cardinality({i \in 1..j : keys[i][1] = keys[j][1]})]

\* the j-th rule read on the stored value of document i: at most the
\* threshold for a max cutoff, at least the threshold for a min cutoff
Passes(i, j) ==
    LET value == docs[i][keys[j][1]]
        threshold == keys[j][2]
    IN  /\ value[2] # 0
        /\ IF keys[j][3]
           THEN value[1] * threshold[2] <= threshold[1] * value[2]
           ELSE value[1] * threshold[2] >= threshold[1] * value[2]

AtThreshold(i, j) ==
    LET value == docs[i][keys[j][1]]
        threshold == keys[j][2]
    IN  value[2] # 0 /\ value[1] * threshold[2] = threshold[1] * value[2]

\* C1: in filtering_of_docs every rule passes a document iff its value is at
\* most the threshold (max cutoff) or at least the threshold (min cutoff), a
\* value equal to the threshold passing in both directions; a document is
\* retained iff it passes every active rule and is discarded otherwise.
C1_Admission ==
    pc = "visualization" =>
        /\ \A j \in DOMAIN keys : \A i \in DOMAIN docs :
               RuleCond(j)[i] <=> Passes(i, j)
        /\ retained_docs = {i \in DOMAIN docs : \A j \in DOMAIN keys : Passes(i, j)}
        /\ discarded_docs = DOMAIN docs \ retained_docs
        /\ \A i \in DOMAIN docs : all_conds[i] <=> i \in retained_docs

\* C1 happens: a retained document sits on the threshold of a max cutoff and
\* one on the threshold of a min cutoff, and another document is discarded
C1_Witness ==
    /\ pc = "visualization"
    /\ runs > 0
    /\ \E j \in DOMAIN keys : \E i \in retained_docs :
           keys[j][3] /\ AtThreshold(i, j)
    /\ \E j \in DOMAIN keys : \E i \in retained_docs :
           ~keys[j][3] /\ AtThreshold(i, j)
    /\ discarded_docs # {}

\* the probe has a document and the rule of lang_id_score is active
LangIdProbed ==
    /\ pc = "visualization"
    /\ session.personal_doc.text # <<>>
    /\ \E j \in DOMAIN keys : keys[j][1] = "lang_id_score"

LangIdKey == keys[CHOOSE j \in DOMAIN keys : keys[j][1] = "lang_id_score"]

\* what the rule of lang_id_score should say of the probed document
LangIdShouldDiscard ==
    \/ Less(session.personal_doc.lang[2], LangIdKey[2])
    \/ session.personal_doc.lang[1] # lang_dataset_id

\* what the other keys say of the probed document
OthersDiscard ==
    ProbeFrom(SelectSeq(keys, LAMBDA key : key[1] # "lang_id_score"), 1,
              session.personal_doc, ProbeStart).is_discarded

\* C8: in analyse_personal_doc the rule of lang_id_score discards the
\* document iff its language identification score is below the threshold or
\* the predicted language is not the language of the dataset, whatever the
\* other signals are and whether or not a flagged words rule is active.
C8_LangIdRule ==
    LangIdProbed =>
        /\ is_discarded # "raised"
        /\ LangIdShouldDiscard => is_discarded = "discarded"
        /\ (is_discarded = "discarded" /\ ~OthersDiscard) => LangIdShouldDiscard

\* the values of a column, and of every other column
Column(table, c) == [i \in DOMAIN table |-> table[i][c]]
OtherColumns(table, c) == [i \in DOMAIN table |-> Without(table[i], c)]

\* a step that replaces the list of a column (widget is its file uploader)
\* leaves every other column and every other condition as it was, and the
\* column is the ratio against the new list
Replaces(c, widget) ==
    (session[widget] # session'[widget] /\ session'[widget].uploaded) =>
        /\ OtherColumns(docs', c) = OtherColumns(docs, c)
        /\ Without(conds', c) = Without(conds, c)
        /\ \A i \in DOMAIN docs' :
               docs'[i][c] = compute_words_ratio(docs'[i]["text"], session'[widget].words)

\* C9: when the user replaces the list of stop words (of flagged words), only
\* stopwords_ratio (flagged_words_ratio) of each document is recomputed,
\* against the new list; every other stored value and the outcome of every
\* other rule are unchanged.
C9_MinimalInvalidation ==
    [][/\ Replaces("stopwords_ratio", "stopwords_file")
       /\ Replaces("flagged_words_ratio", "flagged_words_file")]_vars

\* C9 happens: a list of stop words is uploaded, a value of the column is
\* not what the file held, and another rule is active
C9_Witness ==
    /\ pc = "visualization"
    /\ session.stopwords_file.uploaded
    /\ "flagged_words_ratio" \in DOMAIN conds
    /\ \E i \in DOMAIN docs :
           docs[i]["stopwords_ratio"] # open_data(path_data).docs[i]["stopwords_ratio"]
    /\ discarded_docs # {}

\* the documents that fail the j-th rule considered alone
FailAlone(j) == {i \in DOMAIN docs : ~Passes(i, j)}

\* C10 as stated, for every count the tool reports: the share of the caption
\* of a rule and the list "discarded documents for the filter" of its column
\* count the documents that fail that rule considered alone.
C10_PerRule ==
    pc = "visualization" =>
        \A j \in DOMAIN keys :
            /\ captions[j] = <<Cardinality(FailAlone(j)), Len(docs)>>
            /\ keys[j][1] \in DOMAIN discarded_by_filter =>
                   discarded_by_filter[keys[j][1]] = FailAlone(j)

\* C10: the share of the caption of a rule counts the documents that fail
\* that rule considered alone; the list "discarded documents for the filter"
\* of a column counts the documents that fail at least one rule of the
\* column (both cutoffs for number_words), whatever the other columns' rules.
C10_PerRuleCaptionPerColumnList ==
    pc = "visualization" =>
        /\ \A j \in DOMAIN keys :
               captions[j] = <<Cardinality(FailAlone(j)), Len(docs)>>
        /\ \A c \in DOMAIN discarded_by_filter :
               discarded_by_filter[c] =
                   UNION {FailAlone(j) : j \in {n \in DOMAIN keys : keys[n][1] = c}}
        /\ session.display_discarded_documents_by_filter =>
               DOMAIN discarded_by_filter = {keys[j][1] : j \in DOMAIN keys}

\* C10 happens: the lists by filter are displayed and a document with a
\* number of words fails the min cutoff alone, not the max cutoff
C10_Witness ==
    /\ pc = "visualization"
    /\ "number_words" \in DOMAIN discarded_by_filter
    /\ \E j1, j2 \in DOMAIN keys : \E i \in DOMAIN docs :
           /\ keys[j1][1] = "number_words" /\ ~keys[j1][3]
           /\ keys[j2][1] = "number_words" /\ keys[j2][3]
           /\ docs[i]["number_words"] # NaN
           /\ i \in FailAlone(j1) /\ i \notin FailAlone(j2)
           /\ i \in discarded_by_filter["number_words"]
           /\ captions[j1] # captions[j2]

\* the sliders of the max cutoffs and of the min cutoffs
MaxCutoffs ==
    {"cutoff_max_number_words", "cutoff_repetitions_ratio",
     "cutoff_special_characters_ratio", "cutoff_flagged_words_ratio",
     "cutoff_perplexity_score"}
MinCutoffs ==
    {"cutoff_min_number_words", "cutoff_stopwords_ratio", "cutoff_lang_id_score"}

\* a step that moves the widget and no other
OnlyMoves(widget) ==
    \A x \in DOMAIN session \ {widget} : session'[x] = session[x]

\* C11: with every other rule and every value fixed, a step that raises the
\* threshold of a max cutoff, or lowers the threshold of a min cutoff, moves
\* no retained document to the discarded ones.
C11_Monotone ==
    [][/\ \A widget \in MaxCutoffs :
            (OnlyMoves(widget) /\ Less(session[widget], session'[widget]))
                => retained_docs \subseteq retained_docs'
       /\ \A widget \in MinCutoffs :
            (OnlyMoves(widget) /\ Greater(session[widget], session'[widget]))
                => retained_docs \subseteq retained_docs']_vars

\* C11 happens: two steps have left every widget at its default but the max
\* cutoff of the special characters ratio, now at 0.5; the slider starts at
\* 1.0 and has the positions 0, 0.5 and 1.0, so the last step raised it from
\* 0 to 0.5, and a document on the new threshold is retained again
C11_Witness ==
    /\ pc = "visualization"
    /\ runs = 2
    /\ "special_characters_ratio" \in DOMAIN docs[1]
    /\ session = [WidgetDefaults(path_data) EXCEPT
                      !.cutoff_special_characters_ratio = <<50, 100>>]
    /\ \E i \in retained_docs : docs[i]["special_characters_ratio"] = <<1, 2>>
    /\ discarded_docs # {}

\* the rules of the state, and the rules but the j-th
RulesShown == [j \in DOMAIN keys |-> Rule(keys[j], RuleCond(j))]
RulesWithout(j) ==
    [n \in 1..(Len(keys) - 1) |-> IF n < j THEN RulesShown[n] ELSE RulesShown[n + 1]]

\* what filtering_of_docs retains of the same documents with the rules but
\* the j-th
RetainedWithout(j) ==
    display_dataset([docs |-> docs, rules |-> RulesWithout(j)], Len(docs),
                    session).retained_docs

\* C12: for any documents and any rules, the documents retained under the
\* rules with one rule removed include the documents retained under all the
\* rules.
C12_RemovalGrows ==
    pc = "visualization" =>
        \A j \in DOMAIN keys : retained_docs \subseteq RetainedWithout(j)

\* C12 happens: a document is retained, and another is discarded by one rule
\* alone, so that removing the rule retains it
C12_Witness ==
    /\ pc = "visualization"
    /\ runs > 0
    /\ retained_docs # {}
    /\ \E j \in DOMAIN keys : \E i \in discarded_docs :
           /\ i \in RetainedWithout(j)
           /\ RulesWithout(j) # <<>>

\* the words of the file
WordRows == open_data(path_data).words.rows
HasWords == open_data(path_data).words.present

\* a word that should be retained
WordRetained(j) ==
    /\ WordRows[j].len_word <= session.cutoff_word
    /\ ~session.incorrect_substrings \/ ~WordRows[j].incorrect_substring

\* a step that moves nothing but the widgets of filtering_of_words
WordWidgetsStep ==
    \A x \in DOMAIN session \ {"cutoff_word", "incorrect_substrings"} :
        session'[x] = session[x]

\* C13: in filtering_of_words a word is retained iff its length is at most
\* the threshold and the removal of incorrect substrings is off or the word
\* has none; every word is either retained or discarded, never both; and the
\* widgets of the words change nothing of the admission of the documents.
C13_WordFilter ==
    /\ [](HasWords =>
            /\ retained_words = {j \in DOMAIN WordRows : WordRetained(j)}
            /\ discarded_words = DOMAIN WordRows \ retained_words)
    /\ [][WordWidgetsStep =>
            /\ retained_docs' = retained_docs
            /\ discarded_docs' = discarded_docs
            /\ conds' = conds]_vars

\* C13 happens: a word as long as the threshold is retained, a word no
\* longer than the threshold is discarded for its incorrect substring, and
\* documents are retained and discarded meanwhile
C13_Witness ==
    /\ pc = "visualization"
    /\ HasWords
    /\ runs > 0
    /\ \E j \in retained_words : WordRows[j].len_word = session.cutoff_word
    /\ \E j \in discarded_words :
           /\ WordRows[j].len_word <= session.cutoff_word
           /\ WordRows[j].incorrect_substring
    /\ retained_docs # {}

\* the document lacks the metric of the j-th rule
Lacks(i, j) == docs[i][keys[j][1]] = NaN

\* C14: a document that lacks the metric of an active rule is neither passed
\* nor failed by the rule: it is not discarded on account of it, and whether
\* it is retained is decided by the rules whose metric it has, also when
\* other documents of the file have the metric.
C14_MissingInapplicable ==
    pc = "visualization" =>
        \A i \in DOMAIN docs :
            i \in retained_docs <=>
                \A j \in DOMAIN keys : Lacks(i, j) \/ Passes(i, j)

\* the rows have the ids 0..N-1 by position and are the rows of the
\* concatenation of the shards, all of them, field by field
IdsByPosition(rows) ==
    LET input == concatenate_datasets(datasets)
    IN  /\ Len(rows) = Len(input)
        /\ \A n \in DOMAIN rows :
               /\ rows[n].id = n - 1
               /\ rows[n].url = input[n].url
               /\ rows[n].fetch_time = input[n].fetch_time
               /\ rows[n].external_urls = input[n].external_urls
        /\ \A m, n \in DOMAIN rows : m # n => rows[m].id # rows[n].id
        /\ {rows[n].id : n \in DOMAIN rows} = 0..(Len(input) - 1)

\* C15: once the shards are concatenated and ids assigned, every record's id
\* is its 0-based position in the concatenation, so the ids are distinct and
\* are 0..N-1; the index-build and the resolution passes change no record's
\* id, url, fetch_time or external_urls and remove no record.
C15_IdsByPosition ==
    /\ pc \in {"build_index", "resolve", "push_to_hub", "done"} => IdsByPosition(ds)
    /\ (pc = "resolve" /\ k > 1) => Without(data, "external_ids") = ds[k - 1]
    /\ pc = "done" => IdsByPosition(pushed)

\* C15 happens: two shards that came with ids, each with a record of the
\* same url, have been consolidated: the loser is still there, with its id
C15_Witness ==
    /\ pc = "done"
    /\ Len(datasets[1]) = 1 /\ Len(datasets[2]) = 1
    /\ "id" \in DOMAIN datasets[2][1]
    /\ datasets[1][1].url = datasets[2][1].url
    /\ datasets[1][1].fetch_time > datasets[2][1].fetch_time
    /\ Len(pushed) = 2
    /\ pushed[2].id = 1

\* the value analyse_personal_doc computes for a key
ProbeValue(key) ==
    LET doc == session.personal_doc
    IN  CASE key[1] = "number_words" -> Whole(Len(doc.text))
          [] key[1] = "repetitions_ratio" -> Round3(doc.repetitions_ratio[key[4]])
          [] key[1] = "special_characters_ratio" -> Round3(doc.special_characters_ratio)
          [] key[1] = "stopwords_ratio" -> Round3(compute_words_ratio(doc.text, stopwords))
          [] key[1] = "flagged_words_ratio" ->
               Round3(compute_words_ratio(doc.text, flagged_words))
          [] key[1] = "lang_id_score" -> Round3(doc.lang[2])
          [] key[1] = "perplexity_score" -> Round3(doc.perplexity_score)

\* the probe has, for every key, the value stored for document i
SameValues(i) ==
    \A j \in DOMAIN keys :
        /\ Leq(ProbeValue(keys[j]), docs[i][keys[j][1]])
        /\ Geq(ProbeValue(keys[j]), docs[i][keys[j][1]])

\* C16: when analyse_personal_doc has for a document the values stored for
\* it in the table, it says the document is discarded iff filtering_of_docs
\* discards it; and for every rule is_doc_discarded of a value is the
\* negation of get_cond of that value, the threshold itself included.
C16_ProbeAgrees ==
    (pc = "visualization" /\ session.personal_doc.text # <<>>) =>
        \A i \in DOMAIN docs :
            /\ SameValues(i) =>
                   /\ is_discarded \in {"discarded", "not discarded"}
                   /\ is_discarded = "discarded" <=> i \in discarded_docs
            /\ \A j \in DOMAIN keys :
                   ~Lacks(i, j) =>
                       (is_doc_discarded(keys[j], docs[i][keys[j][1]]) <=> ~RuleCond(j)[i])

\* the document of the text area is probed
Probed == pc = "visualization" /\ session.personal_doc.text # <<>>

\* the ratio of the probed text against an uploaded list
RatioAgainst(file) == Round3(compute_words_ratio(session.personal_doc.text, file.words))

\* C17: after the user has replaced the list of stop words or of flagged
\* words, analyse_personal_doc computes the stopwords ratio and the flagged
\* words ratio against the list the column of the table was last computed
\* with, never against the list that was replaced.
C17_SameLexicon ==
    Probed =>
        /\ ("stopwords_ratio" \in DOMAIN conds /\ session.stopwords_file.uploaded) =>
               ProbeValue(<<"stopwords_ratio">>) = RatioAgainst(session.stopwords_file)
        /\ ("flagged_words_ratio" \in DOMAIN conds /\ session.flagged_words_file.uploaded) =>
               ProbeFrom(keys, 1, session.personal_doc, ProbeStart).flagged_words_ratio
                   = RatioAgainst(session.flagged_words_file)

====
